---- MODULE Spec2Model ----
(***************************************************************************)
(* Model of src/main.rs: a pool of worker threads that pop task ids from a *)
(* shared SegQueue and run, for each id, the mxdys enumeration, then the   *)
(* sligocki enumeration, then move the produced file; the main thread      *)
(* polls is_done, prints the status and sleeps.                            *)
(*                                                                         *)
(* Every block that holds the TaskInfo mutex is one atomic step, and a     *)
(* function with a single such block (ProcessWithBuffer::new, the wait     *)
(* with its locked read of the start time) is one step as a whole.  The    *)
(* iterations of the loops of is_done, print_status and join_all are       *)
(* separate steps, so the workers interleave with a scan.                  *)
(*                                                                         *)
(* The external commands are the environment: while a worker waits for its *)
(* child the child may write lines into its pipes, and it exits with any   *)
(* outcome; a wait that reports an error is taken as the child being gone  *)
(* ("already exited").  Nobody joins a reader thread, so a reader is       *)
(* represented by the lines of its pipe it has not pushed yet; those lines *)
(* outlive the wait on the child.  A line is tagged with the number of the *)
(* spawn (of its worker) that wrote it, and start_time is the number of    *)
(* the spawn that last set it.                                             *)
(*                                                                         *)
(* Spec     the program with NumTasks seeded ids and MaxLines lines        *)
(* LiveSpec Spec with the threads scheduled fairly and every child exiting *)
(* SpecRing one seeded id and enough stdout lines to wrap the ring buffer  *)
(***************************************************************************)
EXTENDS Integers, Sequences, FiniteSets, TLC

\* ---- bounds of the model ------------------------------------------------
NumWorkers == 2
NumTasks == 2
MaxLines == 1
PipeCap == 1
RingExtra == 1

\* ---- program constants --------------------------------------------------
K == 20

Workers == 1..NumWorkers
TaskIds == 0..(NumTasks - 1)
Spawns == 1..(2 * NumTasks)
NoTask == -1

Uninit == <<"Uninit">>
MxdysEnum(t) == <<"MxdysEnum", t>>
SligockiEnum(t) == <<"SligockiEnum", t>>
MoveFile == <<"MoveFile">>
Done == <<"Done">>

ExitOutcomes == {"success", "exit status: 1", "signal: 9 (SIGKILL)", "already exited"}
BufferEmpty == <<"buffer empty">>
NoLine == <<>>
\* a captured line, tagged with the spawn (of its worker) that wrote it
Line(s) == <<"line", s>>

VARIABLES
    queue,            \* job_queue: the pending task ids, oldest first
    popped,           \* history: popped[w] = the ids pop() returned to worker w, in order
    stages,           \* history: stages[t] = the steps of task t's pipeline so far, each with its worker
    pc,               \* position of each worker thread
    task_id,          \* the task_id a worker thread is running combined_enumeration for
    exit_str,         \* the exit_str of the block that waited for a command ("": outside such a block)
    running,          \* number of child processes of the worker that have not exited
    kind,             \* TaskInfo.kind
    start_time,       \* TaskInfo.start_time, as the number of the spawn that set it (0: TaskInfo::new)
    out_buf,          \* TaskInfo.out_buf
    err_buf,          \* TaskInfo.err_buf
    out_hist,         \* history: every line pushed to out_buf, in order
    out_pipe,         \* out_pipe[w][s]: lines of spawn s of worker w its stdout reader has still to push
    err_pipe,         \* the same for the stderr reader
    out_left,         \* stdout lines the external commands will still write
    err_left,         \* stderr lines the external commands will still write
    working_files,    \* task ids whose bb7_<id>.out.pb is in WORKING_DIR
    completed_files,  \* task ids whose bb7_<id>.out.pb is in COMPLETED_DIR
    finished_msg,     \* the last line shown by "Worker <id> finished."
    spc,              \* position of the main thread
    idx,              \* the worker the loop of is_done / print_status / join_all is at
    printed,          \* the workers of the lines print_status printed in its last call, in order
    shown,            \* the "last line" shown by the line print_status printed last in that call
    summaries         \* number of "All done" lines printed

\* the same program at the grain of its lock() calls (LockSpec): every thread,
\* its position, and who holds the guard of each task_info
VARIABLES
    guard,            \* guard[w]: the thread that holds the MutexGuard of worker w's task_info, or Free
    at,               \* at[th]: the position of thread th (worker threads, reader threads, main thread)
    scan,             \* the worker the loop of is_done / print_status / join_all is at
    job,              \* job[w]: the command ("mxdys", "sligocki") worker w is at, or "none"
    jobs_left,        \* number of ids still in job_queue
    marked_done,      \* marked_done[w]: kind = Done
    nspawn,           \* nspawn[w]: number of commands worker w has spawned
    child,            \* child[w]: the command worker w spawned last has not exited
    lines_left        \* lines the commands will still write

progVars == <<queue, popped, stages, pc, task_id, exit_str, running, kind, start_time,
              out_buf, err_buf, out_hist, out_pipe, err_pipe, out_left, err_left,
              working_files, completed_files, finished_msg, spc, idx, printed, shown, summaries>>

lockVars == <<guard, at, scan, job, jobs_left, marked_done, nspawn, child, lines_left>>

vars == <<queue, popped, stages, pc, task_id, exit_str, running, kind, start_time,
          out_buf, err_buf, out_hist, out_pipe, err_pipe, out_left, err_left,
          working_files, completed_files, finished_msg, spc, idx, printed, shown, summaries,
          guard, at, scan, job, jobs_left, marked_done, nspawn, child, lines_left>>

threadVars == <<pc, task_id, exit_str, running>>
infoVars == <<kind, start_time, out_buf, err_buf, out_hist>>
pipeVars == <<out_pipe, err_pipe, out_left, err_left>>
fileVars == <<working_files, completed_files>>
mainVars == <<spc, idx, printed, shown, summaries>>

\* ---- pure helpers -------------------------------------------------------
\* PushBack, had a full buffer kept its front element
PushBackWithoutEvicting(buf, s) == Append(buf, s)

\* CircularBuffer<20, String>::push_back: a full buffer drops its front element
PushBack(buf, s) ==
    IF Len(buf) < K THEN Append(buf, s) ELSE Append(Tail(buf), s)

\* out_buf.back().unwrap_or("buffer empty")
Back(buf) == IF Len(buf) = 0 THEN BufferEmpty ELSE buf[Len(buf)]

\* the last n elements of a sequence
LastN(s, n) == IF Len(s) <= n THEN s ELSE SubSeq(s, Len(s) - n + 1, Len(s))

\* ---- initial states -----------------------------------------------------
RECURSIVE Seeded(_)
Seeded(n) == IF n = 0 THEN <<>> ELSE Append(Seeded(n - 1), n - 1)

\* the threads of the program: main, one per worker, and the two readers of
\* every command a worker spawns
MainThread == <<"main">>
WorkerThread(w) == <<"worker", w>>
Reader(stream, w, s) == <<stream, w, s>>
Streams == {"stdout", "stderr"}
Readers == {Reader(stream, w, s) : stream \in Streams, w \in Workers, s \in Spawns}
Threads == {MainThread} \cup {WorkerThread(w) : w \in Workers} \cup Readers
Free == <<"free">>

LockInit(tasks, lines) ==
    /\ guard = [w \in Workers |-> Free]
    /\ at = [th \in Threads |->
               IF th = MainThread THEN "is_done"
               ELSE IF th \in Readers THEN "unborn"
               ELSE "pop"]
    /\ scan = 1
    /\ job = [w \in Workers |-> "none"]
    /\ jobs_left = tasks
    /\ marked_done = [w \in Workers |-> FALSE]
    /\ nspawn = [w \in Workers |-> 0]
    /\ child = [w \in Workers |-> FALSE]
    /\ lines_left = lines

InitWith(tasks, outLines, errLines) ==
    /\ queue = Seeded(tasks)
    /\ popped = [w \in Workers |-> <<>>]
    /\ stages = [t \in TaskIds |-> <<>>]
    /\ pc = [w \in Workers |-> "pop"]
    /\ task_id = [w \in Workers |-> NoTask]
    /\ exit_str = [w \in Workers |-> ""]
    /\ running = [w \in Workers |-> 0]
    /\ kind = [w \in Workers |-> Uninit]
    /\ start_time = [w \in Workers |-> 0]
    /\ out_buf = [w \in Workers |-> <<>>]
    /\ err_buf = [w \in Workers |-> <<>>]
    /\ out_hist = [w \in Workers |-> <<>>]
    /\ out_pipe = [w \in Workers |-> [s \in Spawns |-> 0]]
    /\ err_pipe = [w \in Workers |-> [s \in Spawns |-> 0]]
    /\ out_left = outLines
    /\ err_left = errLines
    /\ working_files = {}
    /\ completed_files = {}
    /\ finished_msg = [w \in Workers |-> NoLine]
    /\ spc = "is_done"
    /\ idx = 1
    /\ printed = <<>>
    /\ shown = NoLine
    /\ summaries = 0
    /\ LockInit(tasks, outLines + errLines)

\* the commands write MaxLines lines in all, split between the two streams
Init == \E e \in 0..MaxLines : InitWith(NumTasks, MaxLines - e, e)

\* the commands write enough lines to fill the ring buffer and wrap it
InitRing == InitWith(1, K + RingExtra, 0) \/ InitWith(1, 0, MaxLines)

\* ---- worker thread ------------------------------------------------------
\* Pop, had it read the front of the queue without removing it
PopWithoutRemoving(w) ==
    /\ pc[w] = "pop"
    /\ IF queue # <<>>
         THEN /\ popped' = [popped EXCEPT ![w] = Append(@, Head(queue))]
              /\ task_id' = [task_id EXCEPT ![w] = Head(queue)]
              /\ pc' = [pc EXCEPT ![w] = "start_mxdys"]
         ELSE /\ pc' = [pc EXCEPT ![w] = "finish"]
              /\ UNCHANGED <<popped, task_id>>
    /\ UNCHANGED <<queue, stages, exit_str, running, infoVars, pipeVars, fileVars,
                   finished_msg, mainVars>>
    /\ UNCHANGED lockVars

\* Worker::new, the closure's loop: job_queue.pop()
Pop(w) ==
    /\ pc[w] = "pop"
    /\ IF queue # <<>>
         THEN /\ queue' = Tail(queue)
              /\ popped' = [popped EXCEPT ![w] = Append(@, Head(queue))]
              /\ task_id' = [task_id EXCEPT ![w] = Head(queue)]
              /\ pc' = [pc EXCEPT ![w] = "start_mxdys"]
         ELSE /\ pc' = [pc EXCEPT ![w] = "finish"]
              /\ UNCHANGED <<queue, popped, task_id>>
    /\ UNCHANGED <<stages, exit_str, running, infoVars, pipeVars, fileVars, finished_msg, mainVars>>
    /\ UNCHANGED lockVars

\* Finish, had it left the marker as it was
FinishWithoutDone(w) ==
    /\ pc[w] = "finish"
    /\ finished_msg' = [finished_msg EXCEPT ![w] = Back(out_buf[w])]
    /\ pc' = [pc EXCEPT ![w] = "terminated"]
    /\ UNCHANGED <<queue, popped, stages, task_id, exit_str, running, infoVars,
                   pipeVars, fileVars, mainVars>>
    /\ UNCHANGED lockVars

\* Finish, had it no break: the loop goes back to pop
FinishWithoutBreak(w) ==
    /\ pc[w] = "finish"
    /\ finished_msg' = [finished_msg EXCEPT ![w] = Back(out_buf[w])]
    /\ kind' = [kind EXCEPT ![w] = Done]
    /\ pc' = [pc EXCEPT ![w] = "pop"]
    /\ UNCHANGED <<queue, popped, stages, task_id, exit_str, running, start_time, out_buf,
                   err_buf, out_hist, pipeVars, fileVars, mainVars>>
    /\ UNCHANGED lockVars

\* Worker::new, the None arm: under the lock, print the final line and set Done
Finish(w) ==
    /\ pc[w] = "finish"
    /\ finished_msg' = [finished_msg EXCEPT ![w] = Back(out_buf[w])]
    /\ kind' = [kind EXCEPT ![w] = Done]
    /\ pc' = [pc EXCEPT ![w] = "terminated"]
    /\ UNCHANGED <<queue, popped, stages, task_id, exit_str, running, start_time, out_buf,
                   err_buf, out_hist, pipeVars, fileVars, mainVars>>
    /\ UNCHANGED lockVars

\* start_mxdys_task, the locked block
StartMxdysTask(w) ==
    /\ pc[w] = "start_mxdys"
    /\ kind' = [kind EXCEPT ![w] = MxdysEnum(task_id[w])]
    /\ err_buf' = [err_buf EXCEPT ![w] = <<>>]
    /\ pc' = [pc EXCEPT ![w] = "new_mxdys"]
    /\ UNCHANGED <<queue, popped, stages, task_id, exit_str, running, start_time, out_buf,
                   out_hist, pipeVars, fileVars, finished_msg, mainVars>>
    /\ UNCHANGED lockVars

\* StartSligockiTask, had it cleared out_buf along with err_buf
StartSligockiTaskClearsStdout(w) ==
    /\ pc[w] = "start_sligocki"
    /\ kind' = [kind EXCEPT ![w] = SligockiEnum(task_id[w])]
    /\ err_buf' = [err_buf EXCEPT ![w] = <<>>]
    /\ out_buf' = [out_buf EXCEPT ![w] = <<>>]
    /\ exit_str' = [exit_str EXCEPT ![w] = ""]
    /\ pc' = [pc EXCEPT ![w] = "new_sligocki"]
    /\ UNCHANGED <<queue, popped, stages, task_id, running, start_time,
                   out_hist, pipeVars, fileVars, finished_msg, mainVars>>
    /\ UNCHANGED lockVars

\* start_sligocki_task, the locked block
StartSligockiTask(w) ==
    /\ pc[w] = "start_sligocki"
    /\ kind' = [kind EXCEPT ![w] = SligockiEnum(task_id[w])]
    /\ err_buf' = [err_buf EXCEPT ![w] = <<>>]
    /\ exit_str' = [exit_str EXCEPT ![w] = ""]
    /\ pc' = [pc EXCEPT ![w] = "new_sligocki"]
    /\ UNCHANGED <<queue, popped, stages, task_id, running, start_time, out_buf,
                   out_hist, pipeVars, fileVars, finished_msg, mainVars>>
    /\ UNCHANGED lockVars

\* ProcessWithBufferNew, had the caller not waited for the child it spawned
NewWithoutWait(w) ==
    /\ pc[w] \in {"new_mxdys", "new_sligocki"}
    /\ start_time' = [start_time EXCEPT ![w] = @ + 1]
    /\ exit_str' = [exit_str EXCEPT ![w] = ""]
    /\ \E spawned \in BOOLEAN :
         IF spawned
           THEN /\ running' = [running EXCEPT ![w] = @ + 1]
                /\ pc' = [pc EXCEPT ![w] = IF pc[w] = "new_mxdys" THEN "start_sligocki"
                                                                  ELSE "move_file"]
                /\ stages' = [stages EXCEPT ![task_id[w]] =
                       Append(@, <<IF pc[w] = "new_mxdys" THEN "mxdys started"
                                                          ELSE "sligocki started", w>>)]
           ELSE /\ pc' = [pc EXCEPT ![w] = "panicked"]
                /\ UNCHANGED <<running, stages>>
    /\ UNCHANGED <<queue, popped, task_id, kind, out_buf, err_buf, out_hist,
                   pipeVars, fileVars, finished_msg, mainVars>>
    /\ UNCHANGED lockVars

\* ProcessWithBufferNew, had a failed spawn marked the worker Done on its way out
NewFailureMarksDone(w) ==
    /\ pc[w] \in {"new_mxdys", "new_sligocki"}
    /\ start_time' = [start_time EXCEPT ![w] = @ + 1]
    /\ exit_str' = [exit_str EXCEPT ![w] = ""]
    /\ \E spawned \in BOOLEAN :
         IF spawned
           THEN /\ running' = [running EXCEPT ![w] = @ + 1]
                /\ pc' = [pc EXCEPT ![w] = IF pc[w] = "new_mxdys" THEN "wait_mxdys"
                                                                  ELSE "wait_sligocki"]
                /\ stages' = [stages EXCEPT ![task_id[w]] =
                       Append(@, <<IF pc[w] = "new_mxdys" THEN "mxdys started"
                                                          ELSE "sligocki started", w>>)]
                /\ UNCHANGED kind
           ELSE /\ pc' = [pc EXCEPT ![w] = "panicked"]
                /\ kind' = [kind EXCEPT ![w] = Done]
                /\ UNCHANGED <<running, stages>>
    /\ UNCHANGED <<queue, popped, task_id, out_buf, err_buf, out_hist,
                   pipeVars, fileVars, finished_msg, mainVars>>
    /\ UNCHANGED lockVars

\* ProcessWithBuffer::new followed by expect("failed to start job"):
\* the start time is set under the lock, then the command is spawned;
\* a spawn error panics the worker thread
ProcessWithBufferNew(w) ==
    /\ pc[w] \in {"new_mxdys", "new_sligocki"}
    /\ start_time' = [start_time EXCEPT ![w] = @ + 1]
    /\ exit_str' = [exit_str EXCEPT ![w] = ""]
    /\ \E spawned \in BOOLEAN :
         IF spawned
           THEN /\ running' = [running EXCEPT ![w] = @ + 1]
                /\ pc' = [pc EXCEPT ![w] = IF pc[w] = "new_mxdys" THEN "wait_mxdys"
                                                                  ELSE "wait_sligocki"]
                /\ stages' = [stages EXCEPT ![task_id[w]] =
                       Append(@, <<IF pc[w] = "new_mxdys" THEN "mxdys started"
                                                          ELSE "sligocki started", w>>)]
           ELSE /\ pc' = [pc EXCEPT ![w] = "panicked"]
                /\ UNCHANGED <<running, stages>>
    /\ UNCHANGED <<queue, popped, task_id, kind, out_buf, err_buf, out_hist,
                   pipeVars, fileVars, finished_msg, mainVars>>
    /\ UNCHANGED lockVars

\* Wait, had an outcome other than success abandoned the task
WaitStopsOnFailure(w) ==
    /\ pc[w] \in {"wait_mxdys", "wait_sligocki"}
    /\ running' = [running EXCEPT ![w] = @ - 1]
    /\ stages' = [stages EXCEPT ![task_id[w]] =
           Append(@, <<IF pc[w] = "wait_mxdys" THEN "mxdys exited"
                                               ELSE "sligocki exited", w>>)]
    /\ \E outcome \in ExitOutcomes :
         /\ exit_str' = [exit_str EXCEPT ![w] = outcome]
         /\ IF outcome # "success"
              THEN /\ pc' = [pc EXCEPT ![w] = "pop"]
                   /\ UNCHANGED working_files
              ELSE IF pc[w] = "wait_mxdys"
                     THEN /\ pc' = [pc EXCEPT ![w] = "start_sligocki"]
                          /\ UNCHANGED working_files
                     ELSE /\ pc' = [pc EXCEPT ![w] = "move_file"]
                          /\ \E written \in BOOLEAN :
                               working_files' = IF written THEN working_files \cup {task_id[w]}
                                                           ELSE working_files
    /\ UNCHANGED <<queue, popped, task_id, infoVars, pipeVars, completed_files,
                   finished_msg, mainVars>>
    /\ UNCHANGED lockVars

\* Wait, had a command that did not succeed ended the worker's loop
WaitFailureEndsWorker(w) ==
    /\ pc[w] \in {"wait_mxdys", "wait_sligocki"}
    /\ running' = [running EXCEPT ![w] = @ - 1]
    /\ stages' = [stages EXCEPT ![task_id[w]] =
           Append(@, <<IF pc[w] = "wait_mxdys" THEN "mxdys exited"
                                               ELSE "sligocki exited", w>>)]
    /\ \E outcome \in ExitOutcomes :
         /\ exit_str' = [exit_str EXCEPT ![w] = outcome]
         /\ IF outcome # "success"
              THEN /\ pc' = [pc EXCEPT ![w] = "finish"]
                   /\ UNCHANGED working_files
              ELSE IF pc[w] = "wait_mxdys"
                     THEN /\ pc' = [pc EXCEPT ![w] = "start_sligocki"]
                          /\ UNCHANGED working_files
                     ELSE /\ pc' = [pc EXCEPT ![w] = "move_file"]
                          /\ \E written \in BOOLEAN :
                               working_files' = IF written THEN working_files \cup {task_id[w]}
                                                           ELSE working_files
    /\ UNCHANGED <<queue, popped, task_id, infoVars, pipeVars, completed_files,
                   finished_msg, mainVars>>
    /\ UNCHANGED lockVars

\* combined_enumeration: child.wait() returns with any outcome, the elapsed
\* time is read under the lock and the "finished" line is printed.  The
\* sligocki command may or may not have left its --outfile behind.
Wait(w) ==
    /\ pc[w] \in {"wait_mxdys", "wait_sligocki"}
    /\ \E outcome \in ExitOutcomes :
         exit_str' = [exit_str EXCEPT ![w] = outcome]
    /\ running' = [running EXCEPT ![w] = @ - 1]
    /\ stages' = [stages EXCEPT ![task_id[w]] =
           Append(@, <<IF pc[w] = "wait_mxdys" THEN "mxdys exited"
                                               ELSE "sligocki exited", w>>)]
    /\ IF pc[w] = "wait_mxdys"
         THEN /\ pc' = [pc EXCEPT ![w] = "start_sligocki"]
              /\ UNCHANGED working_files
         ELSE /\ pc' = [pc EXCEPT ![w] = "move_file"]
              /\ \E written \in BOOLEAN :
                   working_files' = IF written THEN working_files \cup {task_id[w]}
                                               ELSE working_files
    /\ UNCHANGED <<queue, popped, task_id, infoVars, pipeVars, completed_files,
                   finished_msg, mainVars>>
    /\ UNCHANGED lockVars

\* SetMoveFile, had the relocation begun without setting its marker
SetMoveFileKeepsMarker(w) ==
    /\ pc[w] = "move_file"
    /\ exit_str' = [exit_str EXCEPT ![w] = ""]
    /\ pc' = [pc EXCEPT ![w] = "rename"]
    /\ UNCHANGED <<queue, popped, stages, task_id, running, infoVars,
                   pipeVars, fileVars, finished_msg, mainVars>>
    /\ UNCHANGED lockVars

\* combined_enumeration, the locked block that sets MoveFile
SetMoveFile(w) ==
    /\ pc[w] = "move_file"
    /\ kind' = [kind EXCEPT ![w] = MoveFile]
    /\ exit_str' = [exit_str EXCEPT ![w] = ""]
    /\ pc' = [pc EXCEPT ![w] = "rename"]
    /\ UNCHANGED <<queue, popped, stages, task_id, running, start_time, out_buf, err_buf,
                   out_hist, pipeVars, fileVars, finished_msg, mainVars>>
    /\ UNCHANGED lockVars

\* Relocate, had a missing file or a failed rename been an error of the thread
RelocateFailsTask(w) ==
    /\ pc[w] = "rename"
    /\ \E moved \in BOOLEAN :
         IF moved /\ task_id[w] \in working_files
           THEN /\ working_files' = working_files \ {task_id[w]}
                /\ completed_files' = completed_files \cup {task_id[w]}
                /\ stages' = [stages EXCEPT ![task_id[w]] = Append(@, <<"relocated", w>>)]
                /\ task_id' = [task_id EXCEPT ![w] = NoTask]
                /\ pc' = [pc EXCEPT ![w] = "pop"]
           ELSE /\ pc' = [pc EXCEPT ![w] = "panicked"]
                /\ UNCHANGED <<fileVars, stages, task_id>>
    /\ exit_str' = [exit_str EXCEPT ![w] = ""]
    /\ UNCHANGED <<queue, popped, running, infoVars, pipeVars,
                   finished_msg, mainVars>>
    /\ UNCHANGED lockVars

\* combined_enumeration: path_from.exists(), fs::rename, and the return to the loop
Relocate(w) ==
    /\ pc[w] = "rename"
    /\ IF task_id[w] \in working_files
         THEN \E renamed \in BOOLEAN :
                IF renamed
                  THEN /\ working_files' = working_files \ {task_id[w]}
                       /\ completed_files' = completed_files \cup {task_id[w]}
                  ELSE UNCHANGED fileVars
         ELSE UNCHANGED fileVars
    /\ stages' = [stages EXCEPT ![task_id[w]] = Append(@, <<"relocated", w>>)]
    /\ task_id' = [task_id EXCEPT ![w] = NoTask]
    /\ exit_str' = [exit_str EXCEPT ![w] = ""]
    /\ pc' = [pc EXCEPT ![w] = "pop"]
    /\ UNCHANGED <<queue, popped, running, infoVars, pipeVars,
                   finished_msg, mainVars>>
    /\ UNCHANGED lockVars

\* ---- the external command and the reader threads --------------------------
\* the running child writes a line to its stdout pipe
ChildWriteStdout(w) ==
    /\ pc[w] \in {"wait_mxdys", "wait_sligocki"}
    /\ out_left > 0
    /\ out_pipe[w][start_time[w]] < PipeCap
    /\ out_pipe' = [out_pipe EXCEPT ![w][start_time[w]] = @ + 1]
    /\ out_left' = out_left - 1
    /\ UNCHANGED <<queue, popped, stages, threadVars, infoVars, err_pipe, err_left,
                   fileVars, finished_msg, mainVars>>
    /\ UNCHANGED lockVars

\* the running child writes a line to its stderr pipe
ChildWriteStderr(w) ==
    /\ pc[w] \in {"wait_mxdys", "wait_sligocki"}
    /\ err_left > 0
    /\ err_pipe[w][start_time[w]] < PipeCap
    /\ err_pipe' = [err_pipe EXCEPT ![w][start_time[w]] = @ + 1]
    /\ err_left' = err_left - 1
    /\ UNCHANGED <<queue, popped, stages, threadVars, infoVars, out_pipe, out_left,
                   fileVars, finished_msg, mainVars>>
    /\ UNCHANGED lockVars

\* ProcessWithBuffer::new, the first reader thread: one iteration of its loop.
\* The line is tagged with the spawn that produced it.
ReadStdout(w, s) ==
    /\ out_pipe[w][s] > 0
    /\ out_pipe' = [out_pipe EXCEPT ![w][s] = @ - 1]
    /\ out_buf' = [out_buf EXCEPT ![w] = PushBack(@, Line(s))]
    /\ out_hist' = [out_hist EXCEPT ![w] = Append(@, Line(s))]
    /\ UNCHANGED <<queue, popped, stages, threadVars, kind, start_time, err_buf, err_pipe,
                   out_left, err_left, fileVars, finished_msg, mainVars>>
    /\ UNCHANGED lockVars

\* ReadStderr, had the second reader pushed to out_buf as the first one does
ReadStderrIntoStdout(w, s) ==
    /\ err_pipe[w][s] > 0
    /\ err_pipe' = [err_pipe EXCEPT ![w][s] = @ - 1]
    /\ out_buf' = [out_buf EXCEPT ![w] = PushBack(@, Line(s))]
    /\ out_hist' = [out_hist EXCEPT ![w] = Append(@, Line(s))]
    /\ UNCHANGED <<queue, popped, stages, threadVars, kind, start_time, err_buf,
                   out_pipe, out_left, err_left, fileVars, finished_msg, mainVars>>
    /\ UNCHANGED lockVars

\* ProcessWithBuffer::new, the second reader thread: one iteration of its loop
ReadStderr(w, s) ==
    /\ err_pipe[w][s] > 0
    /\ err_pipe' = [err_pipe EXCEPT ![w][s] = @ - 1]
    /\ err_buf' = [err_buf EXCEPT ![w] = Append(@, Line(s))]
    /\ UNCHANGED <<queue, popped, stages, threadVars, kind, start_time, out_buf, out_hist,
                   out_pipe, out_left, err_left, fileVars, finished_msg, mainVars>>
    /\ UNCHANGED lockVars

\* ---- main thread --------------------------------------------------------
\* IsDone, had it returned true from inside the loop, after the first Done worker
IsDoneFirstOnly ==
    /\ spc = "is_done"
    /\ IF kind[idx] # Done
         THEN /\ spc' = "print_status"
              /\ idx' = 1
              /\ printed' = <<>>
              /\ shown' = NoLine
         ELSE /\ spc' = "join_all"
              /\ idx' = 1
              /\ UNCHANGED <<printed, shown>>
    /\ UNCHANGED <<queue, popped, stages, threadVars, infoVars, pipeVars, fileVars,
                   finished_msg, summaries>>
    /\ UNCHANGED lockVars

\* IsDone, had it taken the empty queue for the end of the work
IsDoneByQueue ==
    /\ spc = "is_done"
    /\ IF queue # <<>>
         THEN /\ spc' = "print_status"
              /\ idx' = 1
              /\ printed' = <<>>
              /\ shown' = NoLine
         ELSE /\ spc' = "join_all"
              /\ idx' = 1
              /\ UNCHANGED <<printed, shown>>
    /\ UNCHANGED <<queue, popped, stages, threadVars, infoVars, pipeVars, fileVars,
                   finished_msg, summaries>>
    /\ UNCHANGED lockVars

\* WorkerGroup::is_done: one iteration of the loop (one worker's lock), and the return
IsDone ==
    /\ spc = "is_done"
    /\ IF kind[idx] # Done
         THEN /\ spc' = "print_status"
              /\ idx' = 1
              /\ printed' = <<>>
              /\ shown' = NoLine
         ELSE IF idx < NumWorkers
                THEN /\ idx' = idx + 1
                     /\ UNCHANGED <<spc, printed, shown>>
                ELSE /\ spc' = "join_all"
                     /\ idx' = 1
                     /\ UNCHANGED <<printed, shown>>
    /\ UNCHANGED <<queue, popped, stages, threadVars, infoVars, pipeVars, fileVars,
                   finished_msg, summaries>>
    /\ UNCHANGED lockVars

\* PrintStatus, had it printed a line for every worker
PrintStatusAll ==
    /\ spc = "print_status"
    /\ printed' = Append(printed, idx)
    /\ shown' = Back(out_buf[idx])
    /\ IF idx < NumWorkers
         THEN /\ idx' = idx + 1
              /\ UNCHANGED spc
         ELSE /\ spc' = "sleep"
              /\ idx' = 1
    /\ UNCHANGED <<queue, popped, stages, threadVars, infoVars, pipeVars, fileVars,
                   finished_msg, summaries>>
    /\ UNCHANGED lockVars

\* WorkerGroup::print_status: one iteration of the loop (one worker's lock)
PrintStatus ==
    /\ spc = "print_status"
    /\ printed' = IF kind[idx] # Done THEN Append(printed, idx) ELSE printed
    /\ shown' = IF kind[idx] # Done THEN Back(out_buf[idx]) ELSE shown
    /\ IF idx < NumWorkers
         THEN /\ idx' = idx + 1
              /\ UNCHANGED spc
         ELSE /\ spc' = "sleep"
              /\ idx' = 1
    /\ UNCHANGED <<queue, popped, stages, threadVars, infoVars, pipeVars, fileVars,
                   finished_msg, summaries>>
    /\ UNCHANGED lockVars

\* main: thread::sleep(REPORT_INTERVAL) and the next iteration of the loop
Sleep ==
    /\ spc = "sleep"
    /\ spc' = "is_done"
    /\ printed' = <<>>
    /\ shown' = NoLine
    /\ UNCHANGED <<queue, popped, stages, threadVars, infoVars, pipeVars, fileVars,
                   finished_msg, idx, summaries>>
    /\ UNCHANGED lockVars

\* WorkerGroup::join_all: one join; it blocks until the thread has ended,
\* and a thread that panicked makes expect("couldn't join thread") panic
JoinAll ==
    /\ spc = "join_all"
    /\ pc[idx] \in {"terminated", "panicked"}
    /\ IF pc[idx] = "panicked"
         THEN /\ spc' = "panicked"
              /\ UNCHANGED idx
         ELSE IF idx < NumWorkers
                THEN /\ idx' = idx + 1
                     /\ UNCHANGED spc
                ELSE /\ spc' = "all_done"
                     /\ idx' = 1
    /\ UNCHANGED <<queue, popped, stages, threadVars, infoVars, pipeVars, fileVars,
                   finished_msg, printed, shown, summaries>>
    /\ UNCHANGED lockVars

\* main: println!("All done, ...") and break
PrintSummary ==
    /\ spc = "all_done"
    /\ summaries' = summaries + 1
    /\ spc' = "exit"
    /\ UNCHANGED <<queue, popped, stages, threadVars, infoVars, pipeVars, fileVars,
                   finished_msg, idx, printed, shown>>
    /\ UNCHANGED lockVars

\* ---- specification ------------------------------------------------------
WorkerStep(w) ==
    \/ Pop(w)
    \/ Finish(w)
    \/ StartMxdysTask(w)
    \/ StartSligockiTask(w)
    \/ ProcessWithBufferNew(w)
    \/ Wait(w)
    \/ SetMoveFile(w)
    \/ Relocate(w)

Next ==
    \/ \E w \in Workers : Pop(w)
    \/ \E w \in Workers : Finish(w)
    \/ \E w \in Workers : StartMxdysTask(w)
    \/ \E w \in Workers : StartSligockiTask(w)
    \/ \E w \in Workers : ProcessWithBufferNew(w)
    \/ \E w \in Workers : Wait(w)
    \/ \E w \in Workers : SetMoveFile(w)
    \/ \E w \in Workers : Relocate(w)
    \/ \E w \in Workers : ChildWriteStdout(w)
    \/ \E w \in Workers : ChildWriteStderr(w)
    \/ \E w \in Workers, s \in Spawns : ReadStdout(w, s)
    \/ \E w \in Workers, s \in Spawns : ReadStderr(w, s)
    \/ IsDone
    \/ PrintStatus
    \/ Sleep
    \/ JoinAll
    \/ PrintSummary

Spec == Init /\ [][Next]_vars

\* the threads the operating system schedules: each worker thread keeps taking
\* steps (a wait ends because the child exits), and so does the main thread
MainStep == IsDone \/ PrintStatus \/ Sleep \/ JoinAll \/ PrintSummary

Fairness ==
    /\ \A w \in Workers : WF_vars(WorkerStep(w))
    /\ WF_vars(MainStep)

LiveSpec == Init /\ [][Next]_vars /\ Fairness

SpecRing == InitRing /\ [][Next]_vars

\* ---- a command that never exits ------------------------------------------
\* the first id seeded
FirstId == Head(Seeded(NumTasks))

\* worker w waits for the mxdys command of the first id
StuckChild(w) == pc[w] = "wait_mxdys" /\ task_id[w] = FirstId

\* child.wait() returns, except for the command that never exits
WaitUnlessStuck(w) == ~StuckChild(w) /\ Wait(w)

WorkerStepStuck(w) ==
    \/ Pop(w)
    \/ Finish(w)
    \/ StartMxdysTask(w)
    \/ StartSligockiTask(w)
    \/ ProcessWithBufferNew(w)
    \/ WaitUnlessStuck(w)
    \/ SetMoveFile(w)
    \/ Relocate(w)

\* the threads are scheduled as in LiveSpec and every other child exits
FairnessStuck ==
    /\ \A w \in Workers : WF_vars(WorkerStepStuck(w))
    /\ WF_vars(MainStep)

\* the program when the mxdys command of the first id need not exit
StuckSpec == Init /\ [][Next]_vars /\ FairnessStuck

\* ---- the program at the grain of its lock() calls ------------------------
\* the positions at which a worker thread calls lock() on its task_info
WorkerLockSites == {"kind", "start_time", "elapsed", "move_file", "finish"}

\* the worker whose task_info a thread locks: a worker thread and the readers
\* of its commands hold an Arc to that worker's task_info only, the main
\* thread goes through the workers
LockOf(th) == IF th = MainThread THEN scan ELSE th[2]

\* the thread is at a lock() call, or in the scope of the guard it returned
AtLockSite(th) ==
    IF th = MainThread THEN at[th] \in {"is_done", "print_status"}
    ELSE IF th \in Readers THEN at[th] = "push"
    ELSE at[th] \in WorkerLockSites

\* the thread is inside lock(), waiting for the guard
Wanting(th) == AtLockSite(th) /\ guard[LockOf(th)] # th

\* Mutex::lock returns the guard: nobody else holds it
Lock(th) ==
    /\ Wanting(th)
    /\ guard[LockOf(th)] = Free
    /\ guard' = [guard EXCEPT ![LockOf(th)] = th]
    /\ UNCHANGED <<at, scan, job, jobs_left, marked_done, nspawn, child, lines_left, progVars>>

\* Worker::new, the closure's loop: job_queue.pop()
LkPop(w) ==
    /\ at[WorkerThread(w)] = "pop"
    /\ IF jobs_left > 0
         THEN /\ jobs_left' = jobs_left - 1
              /\ job' = [job EXCEPT ![w] = "mxdys"]
              /\ at' = [at EXCEPT ![WorkerThread(w)] = "kind"]
         ELSE /\ at' = [at EXCEPT ![WorkerThread(w)] = "finish"]
              /\ UNCHANGED <<jobs_left, job>>
    /\ UNCHANGED <<guard, scan, marked_done, nspawn, child, lines_left, progVars>>

\* start_mxdys_task / start_sligocki_task: the block that holds the guard
\* sets kind, clears err_buf and drops the guard
LkSetKind(w) ==
    /\ at[WorkerThread(w)] = "kind"
    /\ guard[w] = WorkerThread(w)
    /\ guard' = [guard EXCEPT ![w] = Free]
    /\ at' = [at EXCEPT ![WorkerThread(w)] = "start_time"]
    /\ UNCHANGED <<scan, job, jobs_left, marked_done, nspawn, child, lines_left, progVars>>

\* ProcessWithBuffer::new: the block that sets start_time
LkSetStartTime(w) ==
    /\ at[WorkerThread(w)] = "start_time"
    /\ guard[w] = WorkerThread(w)
    /\ guard' = [guard EXCEPT ![w] = Free]
    /\ at' = [at EXCEPT ![WorkerThread(w)] = "spawn"]
    /\ UNCHANGED <<scan, job, jobs_left, marked_done, nspawn, child, lines_left, progVars>>

\* ProcessWithBuffer::new: spawn() and the two thread::spawn of the readers;
\* a spawn error panics the worker thread at expect("failed to start job")
LkSpawn(w) ==
    /\ at[WorkerThread(w)] = "spawn"
    /\ \E spawned \in BOOLEAN :
         IF spawned
           THEN /\ nspawn' = [nspawn EXCEPT ![w] = @ + 1]
                /\ child' = [child EXCEPT ![w] = TRUE]
                /\ at' = [at EXCEPT ![WorkerThread(w)] = "wait",
                                    ![Reader("stdout", w, nspawn[w] + 1)] = "read",
                                    ![Reader("stderr", w, nspawn[w] + 1)] = "read"]
           ELSE /\ at' = [at EXCEPT ![WorkerThread(w)] = "panicked"]
                /\ UNCHANGED <<nspawn, child>>
    /\ UNCHANGED <<guard, scan, job, jobs_left, marked_done, lines_left, progVars>>

\* combined_enumeration: child.wait() returns when the command has exited
LkWait(w) ==
    /\ at[WorkerThread(w)] = "wait"
    /\ child' = [child EXCEPT ![w] = FALSE]
    /\ at' = [at EXCEPT ![WorkerThread(w)] = "elapsed"]
    /\ UNCHANGED <<guard, scan, job, jobs_left, marked_done, nspawn, lines_left, progVars>>

\* combined_enumeration: the block that reads start_time.elapsed(), then the
\* next command of the task or the relocation
LkElapsed(w) ==
    /\ at[WorkerThread(w)] = "elapsed"
    /\ guard[w] = WorkerThread(w)
    /\ guard' = [guard EXCEPT ![w] = Free]
    /\ IF job[w] = "mxdys"
         THEN /\ job' = [job EXCEPT ![w] = "sligocki"]
              /\ at' = [at EXCEPT ![WorkerThread(w)] = "kind"]
         ELSE /\ job' = [job EXCEPT ![w] = "none"]
              /\ at' = [at EXCEPT ![WorkerThread(w)] = "move_file"]
    /\ UNCHANGED <<scan, jobs_left, marked_done, nspawn, child, lines_left, progVars>>

\* combined_enumeration: the block that sets MoveFile
LkSetMoveFile(w) ==
    /\ at[WorkerThread(w)] = "move_file"
    /\ guard[w] = WorkerThread(w)
    /\ guard' = [guard EXCEPT ![w] = Free]
    /\ at' = [at EXCEPT ![WorkerThread(w)] = "rename"]
    /\ UNCHANGED <<scan, job, jobs_left, marked_done, nspawn, child, lines_left, progVars>>

\* combined_enumeration: exists(), rename, and the return to the loop
LkRename(w) ==
    /\ at[WorkerThread(w)] = "rename"
    /\ at' = [at EXCEPT ![WorkerThread(w)] = "pop"]
    /\ UNCHANGED <<guard, scan, job, jobs_left, marked_done, nspawn, child, lines_left, progVars>>

\* Worker::new, the None arm: with the guard, print, set Done, and break,
\* which drops the guard as the closure returns
LkFinish(w) ==
    /\ at[WorkerThread(w)] = "finish"
    /\ guard[w] = WorkerThread(w)
    /\ guard' = [guard EXCEPT ![w] = Free]
    /\ marked_done' = [marked_done EXCEPT ![w] = TRUE]
    /\ at' = [at EXCEPT ![WorkerThread(w)] = "terminated"]
    /\ UNCHANGED <<scan, job, jobs_left, nspawn, child, lines_left, progVars>>

\* a reader thread: lines() yields the next line of the pipe
LkReadLine(r) ==
    /\ at[r] = "read"
    /\ lines_left > 0
    /\ lines_left' = lines_left - 1
    /\ at' = [at EXCEPT ![r] = "push"]
    /\ UNCHANGED <<guard, scan, job, jobs_left, marked_done, nspawn, child, progVars>>

\* a reader thread: lines() ends, the command that held the pipe has exited
LkReadEof(r) ==
    /\ at[r] = "read"
    /\ r[3] < nspawn[r[2]] \/ ~child[r[2]]
    /\ at' = [at EXCEPT ![r] = "ended"]
    /\ UNCHANGED <<guard, scan, job, jobs_left, marked_done, nspawn, child, lines_left, progVars>>

\* LkPush, had the reader taken the guard once, outside its loop
LkPushKeepsGuard(r) ==
    /\ at[r] = "push"
    /\ guard[r[2]] = r
    /\ at' = [at EXCEPT ![r] = "read"]
    /\ UNCHANGED <<guard, scan, job, jobs_left, marked_done, nspawn, child, lines_left, progVars>>

\* a reader thread: the body of its loop pushes the line with the guard,
\* which is dropped at the end of the iteration
LkPush(r) ==
    /\ at[r] = "push"
    /\ guard[r[2]] = r
    /\ guard' = [guard EXCEPT ![r[2]] = Free]
    /\ at' = [at EXCEPT ![r] = "read"]
    /\ UNCHANGED <<scan, job, jobs_left, marked_done, nspawn, child, lines_left, progVars>>

\* WorkerGroup::is_done: one iteration with the guard of one worker, dropped
\* at the end of the iteration or at the return
LkIsDone ==
    /\ at[MainThread] = "is_done"
    /\ guard[scan] = MainThread
    /\ guard' = [guard EXCEPT ![scan] = Free]
    /\ IF ~marked_done[scan]
         THEN /\ at' = [at EXCEPT ![MainThread] = "print_status"]
              /\ scan' = 1
         ELSE IF scan < NumWorkers
                THEN /\ scan' = scan + 1
                     /\ UNCHANGED at
                ELSE /\ at' = [at EXCEPT ![MainThread] = "join_all"]
                     /\ scan' = 1
    /\ UNCHANGED <<job, jobs_left, marked_done, nspawn, child, lines_left, progVars>>

\* WorkerGroup::print_status: one iteration with the guard of one worker
LkPrintStatus ==
    /\ at[MainThread] = "print_status"
    /\ guard[scan] = MainThread
    /\ guard' = [guard EXCEPT ![scan] = Free]
    /\ IF scan < NumWorkers
         THEN /\ scan' = scan + 1
              /\ UNCHANGED at
         ELSE /\ at' = [at EXCEPT ![MainThread] = "sleep"]
              /\ scan' = 1
    /\ UNCHANGED <<job, jobs_left, marked_done, nspawn, child, lines_left, progVars>>

\* main: thread::sleep(REPORT_INTERVAL)
LkSleep ==
    /\ at[MainThread] = "sleep"
    /\ at' = [at EXCEPT ![MainThread] = "is_done"]
    /\ UNCHANGED <<guard, scan, job, jobs_left, marked_done, nspawn, child, lines_left, progVars>>

\* WorkerGroup::join_all: one join
LkJoinAll ==
    /\ at[MainThread] = "join_all"
    /\ at[WorkerThread(scan)] \in {"terminated", "panicked"}
    /\ IF at[WorkerThread(scan)] = "panicked"
         THEN /\ at' = [at EXCEPT ![MainThread] = "panicked"]
              /\ UNCHANGED scan
         ELSE IF scan < NumWorkers
                THEN /\ scan' = scan + 1
                     /\ UNCHANGED at
                ELSE /\ at' = [at EXCEPT ![MainThread] = "exit"]
                     /\ scan' = 1
    /\ UNCHANGED <<guard, job, jobs_left, marked_done, nspawn, child, lines_left, progVars>>

\* the steps a worker thread takes with the guard
WorkerCritical(w) ==
    \/ LkSetKind(w)
    \/ LkSetStartTime(w)
    \/ LkElapsed(w)
    \/ LkSetMoveFile(w)
    \/ LkFinish(w)

\* the steps the main thread takes with a guard
MainCritical == LkIsDone \/ LkPrintStatus

LockNext ==
    \/ \E th \in Threads : Lock(th)
    \/ \E w \in Workers : LkPop(w)
    \/ \E w \in Workers : LkSetKind(w)
    \/ \E w \in Workers : LkSetStartTime(w)
    \/ \E w \in Workers : LkSpawn(w)
    \/ \E w \in Workers : LkWait(w)
    \/ \E w \in Workers : LkElapsed(w)
    \/ \E w \in Workers : LkSetMoveFile(w)
    \/ \E w \in Workers : LkRename(w)
    \/ \E w \in Workers : LkFinish(w)
    \/ \E r \in Readers : LkReadLine(r)
    \/ \E r \in Readers : LkReadEof(r)
    \/ \E r \in Readers : LkPush(r)
    \/ LkIsDone
    \/ LkPrintStatus
    \/ LkSleep
    \/ LkJoinAll

\* a thread that holds a guard is running, so it gets to the end of the
\* guard's scope
LockFairness ==
    /\ \A w \in Workers : WF_vars(WorkerCritical(w))
    /\ \A r \in Readers : WF_vars(LkPush(r))
    /\ WF_vars(MainCritical)

\* one id is seeded: the workers contend for it, one runs its two commands
\* and the other finds the queue empty
InitLock == InitWith(1, MaxLines, 0)

LockSpec == InitLock /\ [][LockNext]_vars /\ LockFairness

\* ---- notions the properties share --------------------------------------
PoppedIds(w) == {popped[w][i] : i \in DOMAIN popped[w]}
AllPopped == UNION {PoppedIds(w) : w \in Workers} = TaskIds
AllDone == \A w \in Workers : kind[w] = Done
NoSpawnFailure == \A w \in Workers : pc[w] # "panicked"
IsPrefix(s, t) == Len(s) <= Len(t) /\ SubSeq(t, 1, Len(s)) = s

\* the pipeline of one task run by worker w, complete and in order
FullPipeline(w) ==
    << <<"mxdys started", w>>, <<"mxdys exited", w>>, <<"sligocki started", w>>,
       <<"sligocki exited", w>>, <<"relocated", w>> >>

\* is_done has returned true
ReturnedTrue == spc \in {"join_all", "all_done", "exit", "panicked"}

\* ---- C1 -----------------------------------------------------------------
\* C1: every id a pop returned was seeded, no id is returned twice (neither to
\* two workers nor twice to one), and once every seeded id has been popped the
\* queue is empty.
C1_PoppedAtMostOnce ==
    /\ \A w \in Workers : PoppedIds(w) \subseteq TaskIds
    /\ \A w1, w2 \in Workers :
         \A i \in DOMAIN popped[w1], j \in DOMAIN popped[w2] :
            popped[w1][i] = popped[w2][j] => w1 = w2 /\ i = j
    /\ AllPopped => queue = <<>>

\* two workers have each popped one id and the queue is empty
C1_Witness ==
    /\ \E w1, w2 \in Workers : w1 # w2 /\ Len(popped[w1]) = 1 /\ Len(popped[w2]) = 1
    /\ AllPopped
    /\ queue = <<>>

\* ---- C2 -----------------------------------------------------------------
\* C2: when no spawn fails (and, by the fairness of LiveSpec, every child
\* exits and every thread keeps running), eventually every seeded id has been
\* popped, the queue is empty and every worker has set Done and terminated; a
\* worker that terminates has set Done.
C2_AllPoppedAllDone ==
    /\ ([]NoSpawnFailure) =>
          <>(/\ AllPopped
             /\ queue = <<>>
             /\ \A w \in Workers : pc[w] = "terminated" /\ kind[w] = Done)
    /\ [][\A w \in Workers : pc'[w] = "terminated" => kind'[w] = Done]_vars

\* every id popped, both workers terminated with Done, one of them after running a task
C2_Witness ==
    /\ AllPopped
    /\ \A w \in Workers : pc[w] = "terminated" /\ kind[w] = Done
    /\ \E t \in TaskIds, w \in Workers : stages[t] = FullPipeline(w)

\* ---- C3 -----------------------------------------------------------------
\* C3: whenever is_done has returned true every marker is Done; an is_done
\* that returns false has just read a marker that is not Done, so a scan that
\* starts when every marker is Done never returns false; and the part of the
\* scan already passed holds only Done markers.
C3_IsDoneExact ==
    [][/\ ReturnedTrue' => AllDone'
       /\ (spc = "is_done" /\ spc' = "print_status") => kind[idx] # Done
       /\ (spc = "is_done" /\ AllDone) => spc' # "print_status"
       /\ spc' = "is_done" => \A w \in Workers : w < idx' => kind'[w] = Done]_vars

\* is_done has just returned true with every worker Done
C3_Witness == spc = "join_all" /\ idx = 1 /\ AllDone

\* ---- C4 -----------------------------------------------------------------
\* C4: the steps of every task are a prefix of: mxdys started, mxdys exited,
\* sligocki started, sligocki exited, relocated, all by one worker; every
\* task a worker popped before its latest one has been relocated; and a
\* worker never has two children running.
C4_StagesInOrder ==
    /\ \A t \in TaskIds :
         stages[t] # <<>> => \E w \in Workers : IsPrefix(stages[t], FullPipeline(w))
    /\ \A w \in Workers : \A i \in DOMAIN popped[w] :
         /\ i < Len(popped[w]) => stages[popped[w][i]] = FullPipeline(w)
         /\ IsPrefix(stages[popped[w][i]], FullPipeline(w))
    /\ \A w \in Workers : running[w] <= 1

\* a worker waits for the first command of its second task, the first task relocated
C4_Witness ==
    \E w \in Workers :
        /\ Len(popped[w]) = 2
        /\ pc[w] = "wait_mxdys"
        /\ running[w] = 1
        /\ stages[popped[w][1]] = FullPipeline(w)

\* ---- C5 -----------------------------------------------------------------
\* C5: whatever the exit outcome, the step after the wait on the mxdys
\* command starts the sligocki stage for the same task id, the step after the
\* wait on the sligocki command sets MoveFile, and the relocation returns the
\* worker to pop; the outcome only sets the string that is printed.
C5_AlwaysAdvance ==
    [][\A w \in Workers :
         /\ (pc[w] = "wait_mxdys" /\ pc'[w] # pc[w]) =>
               /\ pc'[w] = "start_sligocki"
               /\ task_id'[w] = task_id[w]
               /\ exit_str'[w] \in ExitOutcomes
         /\ (pc[w] = "start_sligocki" /\ pc'[w] # pc[w]) =>
               /\ pc'[w] = "new_sligocki"
               /\ kind'[w] = SligockiEnum(task_id[w])
               /\ task_id'[w] = task_id[w]
         /\ (pc[w] = "wait_sligocki" /\ pc'[w] # pc[w]) =>
               /\ pc'[w] = "move_file"
               /\ task_id'[w] = task_id[w]
               /\ exit_str'[w] \in ExitOutcomes
         /\ (pc[w] = "move_file" /\ pc'[w] # pc[w]) =>
               /\ pc'[w] = "rename"
               /\ kind'[w] = MoveFile
               /\ task_id'[w] = task_id[w]
         /\ (pc[w] = "rename" /\ pc'[w] # pc[w]) => pc'[w] = "pop"]_vars

\* the mxdys command exited with a non-zero code and the worker is at
\* start_sligocki_task for the same task
C5_Witness ==
    \E w \in Workers :
        /\ exit_str[w] = "exit status: 1"
        /\ pc[w] = "start_sligocki"
        /\ task_id[w] \in TaskIds
        /\ kind[w] = MxdysEnum(task_id[w])
        /\ stages[task_id[w]] = << <<"mxdys started", w>>, <<"mxdys exited", w>> >>

\* ---- C6 -----------------------------------------------------------------
\* C6: out_buf never holds more than K lines, and it always holds exactly the
\* last min(n, K) of the n lines pushed so far, in the order they were pushed.
C6_RingKeepsLastK ==
    \A w \in Workers :
        /\ Len(out_buf[w]) <= K
        /\ out_buf[w] = LastN(out_hist[w], K)

\* more than K lines were pushed, by the readers of two spawns, and the oldest is gone
C6_Witness ==
    \E w \in Workers :
        /\ Len(out_hist[w]) > K
        /\ Len(out_buf[w]) = K
        /\ out_buf[w][1] # out_hist[w][1]
        /\ \E i, j \in DOMAIN out_buf[w] : out_buf[w][i] # out_buf[w][j]

\* ---- C7 -----------------------------------------------------------------
\* C7: a marker that is Done stays Done and its thread has terminated; a
\* marker becomes Done only in the step of its own worker from "finish" to
\* "terminated"; a worker gets to "finish" only by a pop that found the queue
\* empty; and at "finish" the marker is not yet Done, so it is set once.
C7_DoneTerminalSetOnce ==
    [][\A w \in Workers :
         /\ kind[w] = Done => kind'[w] = Done /\ pc[w] = "terminated" /\ pc'[w] = "terminated"
         /\ (kind[w] # Done /\ kind'[w] = Done) =>
               /\ pc[w] = "finish" /\ pc'[w] = "terminated"
               /\ \A v \in Workers \ {w} : pc'[v] = pc[v] /\ kind'[v] = kind[v]
         /\ (pc[w] # "finish" /\ pc'[w] = "finish") => pc[w] = "pop" /\ queue = <<>>
         /\ pc[w] = "finish" => kind[w] # Done]_vars

\* one worker is Done and terminated while another still waits for a command
C7_Witness ==
    \E w, v \in Workers :
        /\ kind[w] = Done /\ pc[w] = "terminated"
        /\ pc[v] = "wait_sligocki"

\* ---- C8 -----------------------------------------------------------------
\* C8: when no spawn fails, the supervisor loop eventually exits for good with
\* the summary printed once; the summary is never printed twice; join_all
\* passes a worker only once its thread has terminated; and a worker whose
\* marker is Done has terminated, so join_all cannot block.
C8_SupervisorExitsOnce ==
    /\ ([]NoSpawnFailure) => <>[](spc = "exit" /\ summaries = 1)
    /\ [][/\ summaries' <= 1
          /\ spc' = "exit" => summaries' = 1
          /\ (spc = "join_all" /\ (idx' # idx \/ spc' # spc)) => pc[idx] = "terminated"
          /\ \A w \in Workers : kind'[w] = Done => pc'[w] = "terminated"]_vars

\* the loop has exited after printing the summary once, every id relocated
C8_Witness ==
    /\ spc = "exit"
    /\ summaries = 1
    /\ \A t \in TaskIds : \E w \in Workers : stages[t] = FullPipeline(w)

\* ---- C9 -----------------------------------------------------------------
\* C9: a worker whose spawn failed stays dead with a marker that is not Done;
\* while some worker is dead is_done has not returned true and no summary is
\* printed; the id the dead worker popped is popped by nobody else and gets no
\* further step; and the other workers end up terminated with Done, the queue
\* drained unless every worker died.
C9_SpawnFailureHangs ==
    /\ [][\A w \in Workers :
            /\ pc'[w] = "panicked" =>
                 /\ kind'[w] # Done
                 /\ ~ReturnedTrue'
                 /\ summaries' = 0
                 /\ \A v \in Workers \ {w} : task_id'[w] \notin PoppedIds(v)'
            /\ pc[w] = "panicked" =>
                 /\ pc'[w] = "panicked"
                 /\ stages'[task_id[w]] = stages[task_id[w]]
                 /\ task_id'[w] = task_id[w]]_vars
    /\ <>[](\A w \in Workers : pc[w] = "panicked" \/ (pc[w] = "terminated" /\ kind[w] = Done))
    /\ <>(queue = <<>> \/ \A w \in Workers : pc[w] = "panicked")

\* one worker died on a spawn, the other drained the queue and is Done, the loop still polls
C9_Witness ==
    \E w, v \in Workers :
        /\ pc[w] = "panicked"
        /\ pc[v] = "terminated" /\ kind[v] = Done /\ Len(popped[v]) >= 1
        /\ queue = <<>>
        /\ spc = "sleep"

\* ---- C10 ----------------------------------------------------------------
\* C10: each iteration of print_status prints one line for its worker when the
\* marker it reads is not Done and nothing when it is Done; so the lines of a
\* call name distinct workers in order, and every worker the call passed
\* without a line is Done.
C10_PrintStatusSkipsDone ==
    [][/\ spc = "print_status" =>
            \/ UNCHANGED <<spc, idx, printed>>
            \/ kind[idx] # Done /\ printed' = Append(printed, idx)
            \/ kind[idx] = Done /\ printed' = printed
       /\ spc' \in {"print_status", "sleep"} =>
            /\ \A i, j \in DOMAIN printed' : i < j => printed'[i] < printed'[j]
            /\ \A w \in Workers :
                 (spc' = "sleep" \/ w < idx') /\ (\A i \in DOMAIN printed' : printed'[i] # w)
                    => kind'[w] = Done]_vars

\* a call that skipped a Done worker and printed the line of one that is not Done
C10_Witness ==
    /\ spc = "sleep"
    /\ Len(printed) = 1
    /\ \E w \in Workers : kind[w] = Done
    /\ kind[printed[1]] # Done

\* ---- C11 ----------------------------------------------------------------
\* C11: the relocation step always returns the worker to pop with the task's
\* pipeline complete and the marker still MoveFile, whether the file is
\* absent, the rename fails or it succeeds; when the file is absent the
\* directories are left as they were; otherwise either nothing changes or the
\* file of this task, and only it, moves to the completed directory.
C11_RelocationCannotFail ==
    [][\A w \in Workers :
         (pc[w] = "rename" /\ pc'[w] # pc[w]) =>
            /\ pc'[w] = "pop"
            /\ kind'[w] = MoveFile
            /\ stages'[task_id[w]] = FullPipeline(w)
            /\ task_id[w] \notin working_files => UNCHANGED fileVars
            /\ task_id[w] \in working_files =>
                  \/ UNCHANGED fileVars
                  \/ /\ working_files' = working_files \ {task_id[w]}
                     /\ completed_files' = completed_files \cup {task_id[w]}]_vars

\* two tasks are through their relocation and their workers back in the loop:
\* the file of one was absent, the rename of the other failed
C11_Witness ==
    \E t, u \in TaskIds :
        /\ \E w \in Workers : stages[t] = FullPipeline(w) /\ pc[w] # "rename"
        /\ \E w \in Workers : stages[u] = FullPipeline(w) /\ pc[w] # "rename"
        /\ t \notin working_files \cup completed_files
        /\ u \in working_files
        /\ NoSpawnFailure

\* ---- C12 ----------------------------------------------------------------
\* the marker is MxdysEnum(t) or SligockiEnum(t)
RunningStage(k) == k[1] \in {"MxdysEnum", "SligockiEnum"}

\* the number, among the spawns of worker w, of the spawn its marker stands
\* for: two per task it has finished, and one or two for the task it is at
StageSpawn(w) ==
    IF popped[w] = <<>> THEN 0
    ELSE 2 * (Len(popped[w]) - 1)
         + (IF pc[w] = "start_mxdys" THEN 0
            ELSE IF kind[w][1] = "MxdysEnum" THEN 1 ELSE 2)

\* C12: whenever the marker is MxdysEnum(t) or SligockiEnum(t), the start time
\* is already the one of the spawn of that stage, never the one of the
\* previous spawn.
C12_MarkerWithResetStartTime ==
    \A w \in Workers : RunningStage(kind[w]) => start_time[w] = StageSpawn(w)

\* ---- C13 ----------------------------------------------------------------
\* the id worker w popped last
LastPopped(w) == popped[w][Len(popped[w])]

\* C13: a marker changes only from Uninit to MxdysEnum(t) or Done, from
\* MxdysEnum(t) to SligockiEnum(t) with the same t, from SligockiEnum(t) to
\* MoveFile, and from MoveFile to Done or to MxdysEnum(u) for an id u the
\* worker popped after t; and an id in a marker is the id its worker popped
\* last.
C13_MarkerTransitions ==
    [][\A w \in Workers :
         /\ kind'[w] # kind[w] =>
               \/ /\ kind[w] = Uninit
                  /\ \/ kind'[w] = Done
                     \/ kind'[w] = MxdysEnum(LastPopped(w)) /\ Len(popped[w]) = 1
               \/ \E t \in TaskIds :
                     kind[w] = MxdysEnum(t) /\ kind'[w] = SligockiEnum(t)
               \/ \E t \in TaskIds :
                     kind[w] = SligockiEnum(t) /\ kind'[w] = MoveFile
               \/ /\ kind[w] = MoveFile
                  /\ \/ kind'[w] = Done
                     \/ /\ Len(popped[w]) >= 2
                        /\ kind'[w] = MxdysEnum(LastPopped(w))
                        /\ \A i \in 1..(Len(popped[w]) - 1) : popped[w][i] # LastPopped(w)
         /\ RunningStage(kind'[w]) =>
               /\ popped'[w] # <<>>
               /\ kind'[w][2] = LastPopped(w)']_vars

\* a worker that relocated its first task has set MxdysEnum for the second id it popped
C13_Witness ==
    \E w \in Workers :
        /\ Len(popped[w]) = 2
        /\ kind[w] = MxdysEnum(popped[w][2])
        /\ stages[popped[w][1]] = FullPipeline(w)

\* ---- C14 ----------------------------------------------------------------
\* the mxdys command of the first id never exits
NeverExits == <>[](\E w \in Workers : StuckChild(w))

\* C14: while a worker waits for the mxdys command of the first id its marker
\* is MxdysEnum of that id and is_done has not returned true; and when that
\* command never exits and no spawn fails, is_done never returns true, the
\* main thread keeps coming back to is_done and to print_status, which keeps
\* printing the line of the stuck worker, and every other worker ends up
\* terminated with Done, the queue empty and every other id through its
\* whole pipeline.
C14_StuckChildBlocksOnlyItsWorker ==
    /\ [](\A w \in Workers :
            StuckChild(w) =>
               /\ kind[w] = MxdysEnum(FirstId)
               /\ ~ReturnedTrue)
    /\ (NeverExits /\ []NoSpawnFailure) =>
          /\ [](~ReturnedTrue)
          /\ <>[](/\ queue = <<>>
                  /\ \A v \in Workers :
                        ~StuckChild(v) => pc[v] = "terminated" /\ kind[v] = Done
                  /\ \A t \in TaskIds \ {FirstId} :
                        \E v \in Workers : stages[t] = FullPipeline(v))
          /\ []<>(spc = "is_done")
          /\ []<>(spc = "sleep" /\ \E w \in Workers : StuckChild(w) /\ printed = <<w>>)

\* one worker waits for the command that never exits, the other has run the
\* remaining id and is Done, and print_status has printed the one line
C14_Witness ==
    \E w, v \in Workers :
        /\ StuckChild(w) /\ kind[w] = MxdysEnum(FirstId)
        /\ pc[v] = "terminated" /\ kind[v] = Done
        /\ \E t \in TaskIds \ {FirstId} : stages[t] = FullPipeline(v)
        /\ queue = <<>>
        /\ spc = "sleep" /\ printed = <<w>>

\* ---- C15 ----------------------------------------------------------------
\* the fields of the TaskInfo of worker w
InfoOf(w) == <<kind[w], start_time[w], out_buf[w], err_buf[w]>>

\* C15: a step that changes kind[w] or start_time[w] is a step of the thread
\* of worker w and of no other thread; a step in which the stdout reader of
\* a spawn of w takes a line changes out_buf[w] and nothing else of any
\* TaskInfo, and out_buf[w] changes in no other step; the same for the
\* stderr reader and err_buf[w], which apart from that only the thread of w
\* changes, by emptying it; a step of the main thread changes no TaskInfo;
\* and a step of a thread or reader of one worker changes no other worker's
\* TaskInfo.
C15_WritesConfined ==
    [][\A w \in Workers :
         /\ (kind'[w] # kind[w] \/ start_time'[w] # start_time[w]) =>
               /\ pc'[w] # pc[w]
               /\ \A v \in Workers \ {w} : pc'[v] = pc[v]
               /\ UNCHANGED <<out_buf, out_pipe, err_pipe, mainVars>>
         /\ out_pipe'[w] # out_pipe[w] /\ out_left' = out_left =>
               /\ \E s \in Spawns : out_buf'[w] = PushBack(out_buf[w], Line(s))
               /\ UNCHANGED <<kind, start_time, err_buf, pc>>
         /\ out_buf'[w] # out_buf[w] =>
               /\ \E s \in Spawns : out_pipe'[w][s] = out_pipe[w][s] - 1
               /\ out_left' = out_left
         /\ err_pipe'[w] # err_pipe[w] /\ err_left' = err_left =>
               /\ \E s \in Spawns : err_buf'[w] = Append(err_buf[w], Line(s))
               /\ UNCHANGED <<kind, start_time, out_buf, pc>>
         /\ err_buf'[w] # err_buf[w] =>
               \/ /\ \E s \in Spawns : err_pipe'[w][s] = err_pipe[w][s] - 1
                  /\ err_left' = err_left
               \/ /\ pc'[w] # pc[w]
                  /\ err_buf'[w] = <<>>
         /\ mainVars' # mainVars => UNCHANGED <<kind, start_time, out_buf, err_buf>>
         /\ (pc'[w] # pc[w] \/ out_pipe'[w] # out_pipe[w] \/ err_pipe'[w] # err_pipe[w]) =>
               \A v \in Workers \ {w} : InfoOf(v)' = InfoOf(v)]_vars

\* the stderr reader of one worker has pushed a line while the other worker
\* is at a stage of its own, its TaskInfo holding no line
C15_Witness ==
    \E w, v \in Workers :
        /\ w # v
        /\ err_buf[w] # <<>> /\ out_buf[w] = <<>>
        /\ RunningStage(kind[v]) /\ err_buf[v] = <<>> /\ out_buf[v] = <<>>
        /\ spc = "print_status"

\* ---- C16 ----------------------------------------------------------------
\* C16: while a worker waits for the command of a stage, every line in its
\* err_buf was written by that command, that is by the spawn that set
\* start_time; no line of an earlier spawn is there.
C16_StderrOnlyOfCurrentSpawn ==
    \A w \in Workers :
        pc[w] \in {"wait_mxdys", "wait_sligocki"} =>
            \A i \in DOMAIN err_buf[w] : err_buf[w][i] = Line(start_time[w])

\* ---- C17 ----------------------------------------------------------------
\* the positions at which a thread blocks: on the exit of a command, on a
\* pipe, on the end of a thread, in the sleep
BlockingSites == {"wait", "read", "join_all", "sleep"}

C18_DoneMeansAllRelocated ==
    ReturnedTrue =>
        /\ queue = <<>>
        /\ \A t \in TaskIds :
              \E w \in Workers :
                 /\ t \in PoppedIds(w)
                 /\ stages[t] = FullPipeline(w)
                 /\ \A v \in Workers \ {w} : t \notin PoppedIds(v)
        /\ \A w \in Workers :
              /\ task_id[w] = NoTask
              /\ running[w] = 0
              /\ pc[w] = "terminated"

\* is_done has returned true after two workers ran one task each
C18_Witness ==
    /\ spc = "join_all"
    /\ idx = 1
    /\ \E w, v \in Workers :
          /\ w # v
          /\ Len(popped[w]) = 1 /\ stages[popped[w][1]] = FullPipeline(w)
          /\ Len(popped[v]) = 1 /\ stages[popped[v][1]] = FullPipeline(v)

\* ---- C19 ----------------------------------------------------------------
\* the line pushed last to out_buf of worker w, or the placeholder when none was
LastCaptured(w) ==
    IF out_hist[w] = <<>> THEN BufferEmpty ELSE out_hist[w][Len(out_hist[w])]

\* C19: no step of a worker thread changes out_buf (beginning a stage or a
\* task, the relocation, setting Done), and out_buf never gets shorter; the
\* line the "finished" message shows and the line a print_status line shows
\* are the line pushed last to the worker's out_buf, whatever spawn wrote it,
\* and the placeholder exactly when no line was ever pushed.
C19_LastLineNeverCleared ==
    [][/\ \A w \in Workers :
            /\ pc'[w] # pc[w] => out_buf'[w] = out_buf[w]
            /\ Len(out_buf'[w]) >= Len(out_buf[w])
            /\ Back(out_buf[w]) = LastCaptured(w)
            /\ finished_msg'[w] # finished_msg[w] =>
                  /\ finished_msg'[w] = LastCaptured(w)
                  /\ finished_msg'[w] = BufferEmpty <=> out_hist[w] = <<>>
       /\ Len(printed') > Len(printed) =>
            /\ shown' = LastCaptured(idx)
            /\ shown' = BufferEmpty <=> out_hist[idx] = <<>>]_vars

\* print_status has shown, for a worker at the first command of its second
\* task, a line the first command of its first task wrote
C19_Witness ==
    /\ printed # <<>>
    /\ shown = Line(1)
    /\ LET w == printed[Len(printed)] IN
          /\ Len(popped[w]) = 2
          /\ kind[w] = MxdysEnum(popped[w][2])
          /\ start_time[w] = 3

====
